---- MODULE Spec2Model ----
(***************************************************************************)
(* A model of fortran_linter/main.py: the rule catalog (FortranRules), its *)
(* formatting (format_rule), and the line evaluator (LineChecker).         *)
(*                                                                         *)
(* A line of text is a sequence of characters; a character is a string of  *)
(* length one ("SOH" stands for the control character chr(1)).  A regular  *)
(* expression is its syntax tree; Match is a backtracking matcher with the *)
(* priority order of Python's re module (leftmost, ordered alternation,    *)
(* greedy repetition).  Positions inside the matcher are 1-based sequence  *)
(* indexes; a match object carries the 0-based start and end that          *)
(* match.start() and match.end() return.                                   *)
(***************************************************************************)
EXTENDS Integers, Sequences, FiniteSets, TLC

Range(f) == {f[x] : x \in DOMAIN f}

RECURSIVE Flatten(_)
Flatten(ss) == IF Len(ss) = 0 THEN <<>> ELSE Head(ss) \o Flatten(Tail(ss))

Repeat(c, n) == [k \in 1..n |-> c]

(***************************************************************************)
(* Characters and the character classes of the re module.                  *)
(***************************************************************************)
LowerSeq == <<"a", "b", "c", "d", "e", "f", "g", "h", "i", "j", "k", "l", "m",
              "n", "o", "p", "q", "r", "s", "t", "u", "v", "w", "x", "y", "z">>
UpperSeq == <<"A", "B", "C", "D", "E", "F", "G", "H", "I", "J", "K", "L", "M",
              "N", "O", "P", "Q", "R", "S", "T", "U", "V", "W", "X", "Y", "Z">>
DigitChars == {"0", "1", "2", "3", "4", "5", "6", "7", "8", "9"}
WordChars == Range(LowerSeq) \cup Range(UpperSeq) \cup DigitChars \cup {"_"}
SpaceChars == {" ", "\t", "\n", "\r", "\f"}

IndexOf(c, seq) == CHOOSE k \in DOMAIN seq : seq[k] = c

\* str.lower() and str.upper(), one character at a time
LowerChar(c) == IF c \in Range(UpperSeq) THEN LowerSeq[IndexOf(c, UpperSeq)] ELSE c
UpperChar(c) == IF c \in Range(LowerSeq) THEN UpperSeq[IndexOf(c, LowerSeq)] ELSE c
lower(s) == [k \in DOMAIN s |-> LowerChar(s[k])]

\* Python's s[a:b] for 0 <= a, 0 <= b: both ends are clamped to len(s)
Slice(s, a, b) ==
    LET lo == IF a > Len(s) THEN Len(s) ELSE a
        hi == IF b > Len(s) THEN Len(s) ELSE b
    IN  IF hi <= lo THEN <<>> ELSE SubSeq(s, lo + 1, hi)

(***************************************************************************)
(* Regular-expression syntax trees.                                        *)
(***************************************************************************)
Lit(c) == [op |-> "lit", c |-> c]
Set(S) == [op |-> "set", s |-> S, neg |-> FALSE]
NotSet(S) == [op |-> "set", s |-> S, neg |-> TRUE]
Cat(items) == [op |-> "cat", items |-> items]
Alt(items) == [op |-> "alt", items |-> items]
Grp(n, r) == [op |-> "grp", n |-> n, r |-> r]
Rep(r, min, max) == [op |-> "rep", r |-> r, min |-> min, max |-> max, inf |-> FALSE]
Star(r) == [op |-> "rep", r |-> r, min |-> 0, max |-> 0, inf |-> TRUE]
Plus(r) == [op |-> "rep", r |-> r, min |-> 1, max |-> 0, inf |-> TRUE]
Opt(r) == Rep(r, 0, 1)
Bol == [op |-> "bol"]
Eol == [op |-> "eol"]
WordB == [op |-> "wb"]
NotAhead(r) == [op |-> "nla", r |-> r]
Empty == Cat(<<>>)
Chars(w) == [op |-> "str", w |-> w]
\* a {name} placeholder of str.format standing for a sub-pattern, and one
\* standing for the repetition count of the item before it
Fmt(name) == [op |-> "fmt", name |-> name]
RepFmt(r, name) == [op |-> "repfmt", r |-> r, name |-> name]

Dot == NotSet({"\n"})
W == Set(WordChars)
S == Set(SpaceChars)
NS == NotSet(SpaceChars)
D == Set(DigitChars)

(***************************************************************************)
(* The matcher.  stack is the continuation: the items still to be matched  *)
(* from pos on.  caps[g] is <<from, to>>, the 1-based half-open span of    *)
(* group g, or <<0, 0>> while the group has not taken part in the match.   *)
(***************************************************************************)
NoCaps == [g \in 1..3 |-> <<0, 0>>]
Fail == [ok |-> FALSE, pos |-> 0, caps |-> NoCaps]

IsWordAt(s, p) == p >= 1 /\ p <= Len(s) /\ s[p] \in WordChars

\* does the single-character item r (a literal or a class) accept c
Accepts(r, c) == IF r.op = "lit" THEN c = r.c ELSE (c \in r.s) # r.neg

\* how many characters from pos on the repetition n of a single-character
\* item can take at most
RunLength(n, s, pos) ==
    LET left == Len(s) - pos + 1
        limit == IF n.inf \/ n.max > left THEN left ELSE n.max
        runs == {k \in 0..limit : \A j \in 1..k : Accepts(n.r, s[pos + j - 1])}
    IN  CHOOSE k \in runs : \A j \in runs : j <= k

\* of the tries <<k, result>> of a repetition, the result of the longest
\* run that lets the rest match
Longest(tries) ==
    LET good == {t \in tries : t[2].ok}
    IN  IF good = {} THEN Fail
        ELSE (CHOOSE t \in good : \A u \in good : u[1] <= t[1])[2]

RECURSIVE Match(_, _, _, _)
RECURSIVE MatchAlt(_, _, _, _, _, _)

Match(stack, s, pos, caps) ==
    IF Len(stack) = 0 THEN [ok |-> TRUE, pos |-> pos, caps |-> caps]
    ELSE
    LET n == Head(stack)
        rest == Tail(stack)
    IN  CASE n.op = "lit" ->
               IF pos <= Len(s) /\ s[pos] = n.c
               THEN Match(rest, s, pos + 1, caps) ELSE Fail
          [] n.op = "set" ->
               IF pos <= Len(s) /\ ((s[pos] \in n.s) # n.neg)
               THEN Match(rest, s, pos + 1, caps) ELSE Fail
          [] n.op = "str" ->
               IF pos + Len(n.w) - 1 <= Len(s) /\ SubSeq(s, pos, pos + Len(n.w) - 1) = n.w
               THEN Match(rest, s, pos + Len(n.w), caps) ELSE Fail
          [] n.op = "cat" -> Match(n.items \o rest, s, pos, caps)
          [] n.op = "alt" -> MatchAlt(n.items, 1, rest, s, pos, caps)
          [] n.op = "grp" ->
               Match(<<n.r, [op |-> "close", n |-> n.n, from |-> pos]>> \o rest,
                     s, pos, caps)
          [] n.op = "close" ->
               Match(rest, s, pos, [caps EXCEPT ![n.n] = <<n.from, pos>>])
          [] n.op = "rep" ->
               IF n.r.op \in {"lit", "set"}
               THEN \* a repeated single character: greedy, giving back one
                    \* character at a time
                    Longest({<<k, Match(rest, s, pos + k, caps)>> :
                                 k \in n.min..RunLength(n, s, pos)})
               ELSE
               LET less == [n EXCEPT !.min = IF n.min > 0 THEN n.min - 1 ELSE 0,
                                     !.max = IF n.max > 0 THEN n.max - 1 ELSE 0]
                   once == IF n.inf \/ n.max > 0
                           THEN Match(<<n.r, [op |-> "adv", from |-> pos], less>>
                                          \o rest, s, pos, caps)
                           ELSE Fail
               IN  IF once.ok THEN once
                   ELSE IF n.min = 0 THEN Match(rest, s, pos, caps) ELSE Fail
          [] n.op = "adv" ->
               \* an iteration of a repetition has to consume something
               IF pos > n.from THEN Match(rest, s, pos, caps) ELSE Fail
          [] n.op = "bol" ->
               IF pos = 1 THEN Match(rest, s, pos, caps) ELSE Fail
          [] n.op = "eol" ->
               IF pos = Len(s) + 1 \/ (pos = Len(s) /\ s[pos] = "\n")
               THEN Match(rest, s, pos, caps) ELSE Fail
          [] n.op = "wb" ->
               IF IsWordAt(s, pos - 1) # IsWordAt(s, pos)
               THEN Match(rest, s, pos, caps) ELSE Fail
          [] n.op = "nla" ->
               IF Match(<<n.r>>, s, pos, NoCaps).ok
               THEN Fail ELSE Match(rest, s, pos, caps)
          [] OTHER -> Fail

MatchAlt(items, k, rest, s, pos, caps) ==
    IF k > Len(items) THEN Fail
    ELSE LET r == Match(<<items[k]>> \o rest, s, pos, caps)
         IN  IF r.ok THEN r ELSE MatchAlt(items, k + 1, rest, s, pos, caps)

NoMatch == [ok |-> FALSE, start |-> 0, end |-> 0, caps |-> NoCaps]

\* the match object of the try <<p, result>>
AsMatch(t) == [ok |-> TRUE, start |-> t[1] - 1, end |-> t[2].pos - 1, caps |-> t[2].caps]

\* of the tries <<p, result>> at the start positions p, the leftmost match
Leftmost(tries) ==
    LET good == {t \in tries : t[2].ok}
    IN  IF good = {} THEN NoMatch
        ELSE AsMatch(CHOOSE t \in good : \A u \in good : t[1] <= u[1])

\* regexp.search(s, from - 1): the leftmost match starting at index from or later
search(regexp, s, from) ==
    Leftmost({<<p, Match(<<regexp>>, s, p, NoCaps)>> : p \in from..(Len(s) + 1)})

\* where the scan goes on after the match m: an empty match moves one further
after(m) == IF m.end > m.start THEN m.end + 1 ELSE m.end + 2

\* regexp.finditer(s): the non-overlapping matches, left to right
RECURSIVE finditer_from(_, _, _)

finditer_next(regexp, s, m) ==
    IF ~m.ok THEN <<>> ELSE <<m>> \o finditer_from(regexp, s, after(m))

finditer_from(regexp, s, from) == finditer_next(regexp, s, search(regexp, s, from))

finditer(regexp, s) == finditer_from(regexp, s, 1)

(***************************************************************************)
(* Replacement templates of regexp.sub: a sequence of literal characters   *)
(* and group references.                                                   *)
(***************************************************************************)
TC(c) == [ref |-> 0, c |-> c]
TG(n) == [ref |-> n, c |-> ""]

group(s, m, n) ==
    IF m.caps[n][1] = 0 THEN <<>> ELSE SubSeq(s, m.caps[n][1], m.caps[n][2] - 1)

expand(template, s, m) ==
    Flatten([k \in DOMAIN template |->
                IF template[k].ref = 0 THEN <<template[k].c>>
                ELSE group(s, m, template[k].ref)])

\* regexp.sub(template, s): every non-overlapping match in s is replaced
RECURSIVE sub_from(_, _, _, _)

sub_next(regexp, template, s, from, m) ==
    IF ~m.ok THEN Slice(s, from - 1, Len(s))
    ELSE Slice(s, from - 1, m.start) \o expand(template, s, m)
             \o (IF m.end > m.start THEN <<>> ELSE Slice(s, m.start, m.start + 1))
             \o sub_from(regexp, template, s, after(m))

sub_from(regexp, template, s, from) ==
    sub_next(regexp, template, s, from, search(regexp, s, from))

sub(regexp, template, s) == sub_from(regexp, template, s, 1)

(***************************************************************************)
(* FortranRules: the rule templates.  A tuple (rxp, replacement, msg) is a *)
(* record of type "tuple", a list of rules a record of type "list".        *)
(***************************************************************************)
None == [kind |-> "None"]
Static(template) == [kind |-> "str", template |-> template]
Callable(fn) == [kind |-> "callable", fn |-> fn]
\* a message template: literal text and {name} placeholders
Text(t) == [ph |-> FALSE, v |-> t]
Field(name) == [ph |-> TRUE, v |-> name]
Msg(parts) == [kind |-> "str", parts |-> parts]

Tuple(rxp, replacement, msg) ==
    [type |-> "tuple", rxp |-> rxp, replacement |-> replacement, msg |-> msg]
List(items) == [type |-> "list", items |-> items]

TS(w) == [k \in DOMAIN w |-> TC(w[k])]

WordOrClose == Alt(<<W, Lit(")")>>)
WordOrOpen == Alt(<<W, Lit("(")>>)
EqLeft == Alt(<<W, Lit(")"), Lit(".")>>)
EqRight == Alt(<<W, Lit("("), Lit("."), Lit("+"), Lit("-"), Lit("'"), Lit("\"")>>)
Quote == Set({"\"", "'"})

types == <<Chars(<<"r", "e", "a", "l">>),
           Chars(<<"c", "h", "a", "r", "a", "c", "t", "e", "r">>),
           Chars(<<"l", "o", "g", "i", "c", "a", "l">>),
           Chars(<<"i", "n", "t", "e", "g", "e", "r">>)>>

operators == <<Chars(<<".", "e", "q", ".">>),
               Chars(<<".", "n", "e", "q", ".">>),
               Chars(<<".", "g", "t", ".">>),
               Chars(<<".", "l", "t", ".">>),
               Chars(<<".", "l", "e", ".">>),
               Chars(<<".", "l", "e", "q", ".">>),
               Chars(<<".", "g", "e", ".">>),
               Chars(<<".", "g", "e", "q", ".">>),
               Chars(<<"=", "=">>),
               Chars(<<"/", "=">>),
               Chars(<<"<", "=">>),
               Lit("<"),
               Chars(<<">", "=">>),
               Lit(">"),
               Chars(<<".", "a", "n", "d", ".">>),
               Chars(<<".", "o", "r", ".">>),
               Lit("+"),
               Lit("-"),
               Lit("*"),
               Lit("/")>>

structs == <<Chars(<<"i", "f">>),
             Chars(<<"s", "e", "l", "e", "c", "t">>),
             Chars(<<"c", "a", "s", "e">>),
             Chars(<<"w", "h", "i", "l", "e">>)>>

punctuation == <<Lit(","), Lit(")"), Lit(";")>>

rules == <<
    \* do (\w+)=(\S+),(\S+)
    Tuple(Cat(<<Chars(<<"d", "o", " ">>), Grp(1, Plus(W)), Lit("="),
                Grp(2, Plus(NS)), Lit(","), Grp(3, Plus(NS))>>),
          Static(TS(<<"d", "o", " ">>) \o <<TG(1)>> \o TS(<<" ", "=", " ">>)
                 \o <<TG(2)>> \o TS(<<",", " ">>) \o <<TG(3)>>),
          Msg(<<Text("Missing spaces")>>)),
    List(<<
        Tuple(Cat(<<Grp(1, WordOrClose), Grp(2, Fmt("operators")), Grp(3, WordOrOpen)>>),
              Static(<<TG(1), TC(" "), TG(2), TC(" "), TG(3)>>),
              Msg(<<Text("Missing spaces around operator")>>)),
        Tuple(Cat(<<Grp(1, WordOrClose), Grp(2, Fmt("operators"))>>),
              Static(<<TG(1), TC(" "), TG(2)>>),
              Msg(<<Text("Missing space before operator")>>)),
        Tuple(Cat(<<Grp(1, Fmt("operators")), Grp(2, WordOrOpen)>>),
              Static(<<TG(1), TC(" "), TG(2)>>),
              Msg(<<Text("Missing space after operator")>>))>>),
    List(<<
        Tuple(Cat(<<Grp(1, NS), Chars(<<":", ":">>), Grp(2, NS)>>),
              Static(<<TG(1), TC(" "), TC(":"), TC(":"), TC(" "), TG(2)>>),
              Msg(<<Text("Missing spaces around separator")>>)),
        Tuple(Cat(<<Grp(1, NS), Chars(<<":", ":">>)>>),
              Static(<<TG(1), TC(" "), TC(":"), TC(":")>>),
              Msg(<<Text("Missing space before separator")>>)),
        Tuple(Cat(<<Chars(<<":", ":">>), Grp(1, NS)>>),
              Static(<<TC(":"), TC(":"), TC(" "), TG(1)>>),
              Msg(<<Text("Missing space after separator")>>))>>),
    List(<<
        \* \'[^\']*\'
        Tuple(Cat(<<Lit("'"), Star(NotSet({"'"})), Lit("'")>>), None, None),
        Tuple(Cat(<<Grp(1, Fmt("punctuations")), Grp(2, W)>>),
              Static(<<TG(1), TC(" "), TG(2)>>),
              Msg(<<Text("Missing space after punctuation")>>))>>),
    \* \b({types_upper})\s*::
    Tuple(Cat(<<WordB, Grp(1, Fmt("types_upper")), Star(S), Chars(<<":", ":">>)>>),
          Callable("to_lowercase"),
          Msg(<<Text("Types should be lowercased")>>)),
    Tuple(Cat(<<Grp(1, Fmt("structs")), Lit("(")>>),
          Static(<<TG(1), TC(" "), TC("(")>>),
          Msg(<<Text("Missing space before parenthesis")>>)),
    \* the replacement is not a raw string: "\1" is the character chr(1)
    Tuple(Cat(<<Bol, Grp(1, Star(S)),
                Chars(<<"u", "s", "e", " ", "o", "m", "p", "_", "l", "i", "b">>)>>),
          Static(TS(<<"SOH", "!", "$", " ", "u", "s", "e", " ",
                      "o", "m", "p", "_", "l", "i", "b">>)),
          Msg(<<Text("Should prepend with \"!$\"")>>)),
    \* ^.{linelen_re}.+$
    Tuple(Cat(<<Bol, RepFmt(Dot, "linelen_re"), Plus(Dot), Eol>>),
          None,
          Msg(<<Text("Line length > "), Field("linelen"), Text(" characters")>>)),
    Tuple(Lit("\t"),
          Static(<<TC(" "), TC(" ")>>),
          Msg(<<Text("Should use 2 spaces instead of tabulation")>>)),
    Tuple(Cat(<<Grp(1, Fmt("types")), Lit("*"), Grp(2, Plus(W))>>),
          Static(<<TG(1), TC("("), TG(2), TC(")")>>),
          Msg(<<Text("Use new syntax TYPE(kind)")>>)),
    Tuple(Cat(<<Grp(1, W), Lit("!")>>),
          Static(<<TG(1), TC(" "), TC("!")>>),
          Msg(<<Text("At least one space before comment")>>)),
    \* \!(|\s\s+)(\w)
    Tuple(Cat(<<Lit("!"), Grp(1, Alt(<<Empty, Cat(<<S, Plus(S)>>)>>)), Grp(2, W)>>),
          Static(<<TC("!"), TC(" "), TG(2)>>),
          Msg(<<Text("Exactly one space after comment")>>)),
    \* ;\s*$ with the template r"\n", which sub expands to a newline
    Tuple(Cat(<<Lit(";"), Star(S), Eol>>),
          Static(<<TC("\n")>>),
          Msg(<<Text("Useless \";\" at end of line")>>)),
    List(<<
        Tuple(Chars(<<"#", "e", "n", "d", "i", "f">>), None, None),
        Tuple(Cat(<<Chars(<<"e", "n", "d">>),
                    Grp(1, Alt(<<Chars(<<"i", "f">>), Chars(<<"d", "o">>),
                                 Chars(<<"s", "u", "b", "r", "o", "u", "t", "i", "n", "e">>),
                                 Chars(<<"f", "u", "n", "c", "t", "i", "o", "n">>)>>))>>),
              Static(<<TC("e"), TC("n"), TC("d"), TC(" "), TG(1)>>),
              Msg(<<Text("Missing space after `end'")>>))>>),
    List(<<
        Tuple(Cat(<<Lit("("), Grp(1, Alt(<<Chars(<<"k", "i", "n", "d">>),
                                           Chars(<<"l", "e", "n">>)>>)), Lit("=")>>),
              None, None),
        Tuple(Cat(<<Chars(<<"w", "r", "i", "t", "e">>), Star(S), Lit("("),
                    Star(Dot), Lit(")")>>),
              None, None),
        Tuple(Cat(<<Chars(<<"o", "p", "e", "n">>), Star(S), Lit("("),
                    Plus(NotSet({")"})), Lit(")")>>),
              None, None),
        Tuple(Chars(<<":", ":">>), None, None),
        Tuple(Cat(<<Lit(" "), Lit("="), Grp(1, EqRight)>>),
              Static(<<TC(" "), TC("="), TC(" "), TG(1)>>),
              Msg(<<Text("Missing space after \"=\"")>>)),
        Tuple(Cat(<<Grp(1, EqLeft), Lit("="), Lit(" ")>>),
              Static(<<TG(1), TC(" "), TC("="), TC(" ")>>),
              Msg(<<Text("Missing space before \"=\"")>>)),
        Tuple(Cat(<<Grp(1, EqLeft), Lit("="), Grp(2, EqRight)>>),
              Static(<<TG(1), TC(" "), TC("="), TC(" "), TG(2)>>),
              Msg(<<Text("Missing spaces around \"=\"")>>))>>),
    \* ( \t)+$
    Tuple(Cat(<<Plus(Grp(1, Chars(<<" ", "\t">>))), Eol>>),
          Static(<<>>),
          Msg(<<Text("Trailing whitespaces")>>)),
    \* \(kind\s*=\s*\d\s*\)
    Tuple(Cat(<<Lit("("), Chars(<<"k", "i", "n", "d">>), Star(S), Lit("="),
                Star(S), D, Star(S), Lit(")")>>),
          None,
          Msg(<<Text("You should use \"sp\" or \"dp\" instead")>>)),
    \* \(\\([^\)]*)\\\)
    Tuple(Cat(<<Lit("("), Lit("\\"), Grp(1, Star(NotSet({")"}))), Lit("\\"), Lit(")")>>),
          Static(<<TC("["), TG(1), TC("]")>>),
          Msg(<<Text("You should use \"[]\" instead")>>)),
    List(<<
        Tuple(Chars(<<"!", "$">>), None, None),
        \* (call |\w+ ?= ?|(?!\w))omp_
        Tuple(Cat(<<Grp(1, Alt(<<Chars(<<"c", "a", "l", "l", " ">>),
                                 Cat(<<Plus(W), Opt(Lit(" ")), Lit("="), Opt(Lit(" "))>>),
                                 NotAhead(W)>>)),
                    Chars(<<"o", "m", "p", "_">>)>>),
              Static(<<TC("!"), TC("$"), TC(" "), TG(1)>>),
              Msg(<<Text("Should prepend OpenMP calls with !$")>>))>>),
    \* include ["\']mpif.h[\'"]
    Tuple(Cat(<<Chars(<<"i", "n", "c", "l", "u", "d", "e", " ">>), Quote,
                Chars(<<"m", "p", "i", "f">>), Dot, Lit("h"), Quote>>),
          None,
          \* (the message quotes use mpi_f08 and use mpi in backquotes, written
          \* as apostrophes here)
          Msg(<<Text("Should use 'use mpi_f08' instead (or 'use mpi' if not available)")>>))
    >>

(***************************************************************************)
(* FortranRules.__init__ and format_rule.  The dictionary fmt maps the     *)
(* placeholder names to the joined fragments; format_rule raises KeyError  *)
(* for a placeholder that fmt lacks and NotImplementedError for a node     *)
(* that is neither a tuple nor a list.                                     *)
(***************************************************************************)
join(snippets) == Alt(snippets)

\* str.upper() of a pattern made of literal characters and alternation
RECURSIVE UpperRx(_)
UpperRx(r) ==
    CASE r.op = "lit" -> Lit(UpperChar(r.c))
      [] r.op = "str" -> Chars([k \in DOMAIN r.w |-> UpperChar(r.w[k])])
      [] r.op \in {"cat", "alt"} ->
           [r EXCEPT !.items = [k \in DOMAIN r.items |-> UpperRx(r.items[k])]]
      [] OTHER -> r

\* fmt with a repetition count of the line-length pattern that is one too large
fmt_one_more(linelen) ==
    [operators |-> join(operators),
     types_upper |-> UpperRx(join(types)),
     types |-> join(types),
     structs |-> join(structs),
     punctuations |-> join(punctuation),
     linelen_re |-> linelen + 1,
     linelen |-> ToString(linelen)]

fmt(linelen) ==
    [operators |-> join(operators),
     types_upper |-> UpperRx(join(types)),
     types |-> join(types),
     structs |-> join(structs),
     punctuations |-> join(punctuation),
     linelen_re |-> linelen,
     linelen |-> ToString(linelen)]

\* the placeholder names a pattern template uses
RECURSIVE RxFields(_)
RxFields(r) ==
    CASE r.op = "fmt" -> {r.name}
      [] r.op = "repfmt" -> {r.name} \cup RxFields(r.r)
      [] r.op \in {"cat", "alt"} -> UNION {RxFields(r.items[k]) : k \in DOMAIN r.items}
      [] r.op \in {"grp", "rep", "nla"} -> RxFields(r.r)
      [] OTHER -> {}

MsgFields(msg) ==
    IF msg.kind = "None" THEN {}
    ELSE {msg.parts[k].v : k \in {j \in DOMAIN msg.parts : msg.parts[j].ph}}

\* rxp.format(**fmt) followed by re.compile
RECURSIVE format_rx(_, _)
format_rx(r, f) ==
    CASE r.op = "fmt" -> f[r.name]
      [] r.op = "repfmt" -> Rep(format_rx(r.r, f), f[r.name], f[r.name])
      [] r.op \in {"cat", "alt"} ->
           [r EXCEPT !.items = [k \in DOMAIN r.items |-> format_rx(r.items[k], f)]]
      [] r.op \in {"grp", "rep", "nla"} -> [r EXCEPT !.r = format_rx(r.r, f)]
      [] OTHER -> r

\* msg.format(**fmt)
RECURSIVE format_parts(_, _)
format_parts(parts, f) ==
    IF Len(parts) = 0 THEN ""
    ELSE (IF Head(parts).ph THEN f[Head(parts).v] ELSE Head(parts).v)
             \o format_parts(Tail(parts), f)

format_msg(msg, f) ==
    IF msg.kind = "None" THEN None ELSE [kind |-> "str", s |-> format_parts(msg.parts, f)]

Raise(exc) == [type |-> "raise", exc |-> exc]

FirstRaise(items) ==
    items[CHOOSE k \in DOMAIN items :
              /\ items[k].type = "raise"
              /\ \A j \in 1..(k - 1) : items[j].type # "raise"]

\* a list comprehension over format_rule: the list of the results, or the
\* first exception raised on the way
Collected(items) ==
    IF \E k \in DOMAIN items : items[k].type = "raise"
    THEN FirstRaise(items)
    ELSE List(items)

RECURSIVE format_rule(_, _)
format_rule(rule, f) ==
    IF rule.type = "tuple"
    THEN IF (MsgFields(rule.msg) \cup RxFields(rule.rxp)) \subseteq DOMAIN f
         THEN [type |-> "tuple",
               regexp |-> format_rx(rule.rxp, f),
               correction |-> rule.replacement,
               msg |-> format_msg(rule.msg, f)]
         ELSE Raise("KeyError")
    ELSE IF rule.type = "list"
    THEN Collected([k \in DOMAIN rule.items |-> format_rule(rule.items[k], f)])
    ELSE Raise("NotImplementedError")

\* FortranRules(linelen).get() for the class attribute rules = templates:
\* newRules = [self.format_rule(rule, fmt) for rule in self.rules]
FortranRules(templates, linelen) ==
    Collected([k \in DOMAIN templates.items |->
                  format_rule(templates.items[k], fmt(linelen))])

(***************************************************************************)
(* LineChecker.  st is the mutable part of the object that evaluation      *)
(* writes: the error list and the two counters.                            *)
(***************************************************************************)
to_lowercase(line, match) ==
    LET low == lower(Slice(line, match.start, match.end))
    IN  Slice(line, 0, match.start) \o low \o Slice(line, match.end, Len(line))

fmt_err(msg, meta) ==
    LET showpos == Repeat(" ", meta.pos) \o <<"1">>
    IN  [filename |-> meta.filename,
         line |-> meta.line,
         pos |-> meta.pos,
         snippet |-> <<" ">> \o meta.original_line,
         marker |-> <<" ">> \o showpos,
         msg |-> msg.s]

\* the group numbers of a pattern, and the ones a template refers to
RECURSIVE Groups(_)
Groups(r) ==
    CASE r.op = "grp" -> {r.n} \cup Groups(r.r)
      [] r.op \in {"cat", "alt"} -> UNION {Groups(r.items[k]) : k \in DOMAIN r.items}
      [] r.op \in {"rep", "nla"} -> Groups(r.r)
      [] OTHER -> {}

Refs(template) == {template[k].ref : k \in DOMAIN template} \ {0}

\* the correction of one match: the callable or regexp.sub on the current line
correct(rule, newLine, res) ==
    IF rule.correction.kind = "callable" THEN to_lowercase(newLine, res)
    ELSE IF rule.correction.kind = "str"
    THEN sub(rule.regexp, rule.correction.template, newLine)
    ELSE newLine

\* regexp.sub rejects a template that names a group the pattern lacks
BadTemplate(rule) ==
    /\ rule.correction.kind = "str"
    /\ ~(Refs(rule.correction.template) \subseteq Groups(rule.regexp))

\* counted with modifcount incremented for every match
counted_every_match(rule, st) == [st EXCEPT !.modifcount = @ + 1]

counted(rule, st) ==
    [st EXCEPT !.modifcount = IF rule.correction.kind # "None" THEN @ + 1 ELSE @]

reported(rule, meta, st) ==
    IF rule.msg.kind # "None"
    THEN [st EXCEPT !.errors = Append(@, fmt_err(rule.msg, meta)),
                    !.errcount = @ + 1]
    ELSE st

RECURSIVE check_rule_from(_, _, _, _, _, _, _)

\* check_rule_from with a match counted as a hint only when the rule corrects
\* or reports
check_rule_from_silent(ms, k, newLine, hints, meta, rule, st) ==
    IF k > Len(ms) THEN [line |-> newLine, hints |-> hints, st |-> st, exc |-> ""]
    ELSE IF BadTemplate(rule)
    THEN [line |-> newLine, hints |-> hints + 1, st |-> counted(rule, st),
          exc |-> "re.error"]
    ELSE check_rule_from(ms, k + 1, correct(rule, newLine, ms[k]),
                         IF rule.correction.kind = "None" /\ rule.msg.kind = "None"
                         THEN hints ELSE hints + 1,
                         meta, rule,
                         reported(rule, [meta EXCEPT !.pos = ms[k].start + 1],
                                  counted(rule, st)))

\* the loop of check_rule over the matches ms, from the k-th match on
check_rule_from(ms, k, newLine, hints, meta, rule, st) ==
    IF k > Len(ms) THEN [line |-> newLine, hints |-> hints, st |-> st, exc |-> ""]
    ELSE IF BadTemplate(rule)
    THEN [line |-> newLine, hints |-> hints + 1, st |-> counted(rule, st),
          exc |-> "re.error"]
    ELSE check_rule_from(ms, k + 1, correct(rule, newLine, ms[k]), hints + 1, meta, rule,
                         reported(rule, [meta EXCEPT !.pos = ms[k].start + 1],
                                  counted(rule, st)))

\* check_rule with the matches looked for in the current line
check_rule_current(line, original_line, meta, rule, st) ==
    check_rule_from(finditer(rule.regexp, line), 1, line, 0, meta, rule, st)

check_rule(line, original_line, meta, rule, st) ==
    check_rule_from(finditer(rule.regexp, original_line), 1, line, 0, meta, rule, st)

\* hints stays unbound (bound = FALSE) while the loop over a list has not run
RECURSIVE check_ruleset(_, _, _, _, _, _)
RECURSIVE check_ruleset_from(_, _, _, _, _, _, _, _, _)

Bound(r) == [line |-> r.line, hints |-> r.hints, bound |-> TRUE, st |-> r.st, exc |-> r.exc]

check_ruleset(line, original_line, meta, ruleset, depth, st) ==
    IF ruleset.type = "tuple"
    THEN Bound(check_rule(line, original_line, meta, ruleset, st))
    ELSE check_ruleset_from(ruleset.items, 1, line, 0, FALSE, original_line, meta, depth, st)

\* check_ruleset_next stopping after the first match at every depth
check_ruleset_next_stop_anywhere(items, k, r, original_line, meta, depth) ==
    IF r.exc # "" THEN r
    ELSE IF r.hints > 0 THEN r
    ELSE check_ruleset_from(items, k + 1, r.line, r.hints, TRUE,
                            original_line, meta, depth, r.st)

\* check_ruleset_next never stopping after a match
check_ruleset_next_no_stop(items, k, r, original_line, meta, depth) ==
    IF r.exc # "" THEN r
    ELSE check_ruleset_from(items, k + 1, r.line, r.hints, TRUE,
                            original_line, meta, depth, r.st)

\* the loop of check_ruleset after the k-th item returned r
check_ruleset_next(items, k, r, original_line, meta, depth) ==
    IF r.exc # "" THEN r
    \* Stop after first match
    ELSE IF r.hints > 0 /\ depth >= 1 THEN r
    ELSE check_ruleset_from(items, k + 1, r.line, r.hints, TRUE,
                            original_line, meta, depth, r.st)

check_ruleset_from(items, k, line, hints, bound, original_line, meta, depth, st) ==
    IF k > Len(items)
    THEN [line |-> line, hints |-> hints, bound |-> bound, st |-> st,
          exc |-> IF bound THEN "" ELSE "UnboundLocalError"]
    ELSE check_ruleset_next(items, k,
             check_ruleset(line, original_line, meta, items[k], depth + 1, st),
             original_line, meta, depth)

(***************************************************************************)
(* The inputs: the text of the file, the line length limit, and the rule   *)
(* templates the catalog is built from.                                    *)
(***************************************************************************)
\* the pieces of a generated file, the line length limits tried, the
\* characters of a line measured against them, and a larger limit that is
\* tried with the lines of as many characters and of one more
MaxFile == 3
MaxLimit == 3
MaxLineChars == 4
ExampleLimit == 10

\* the pieces a generated file is made of
Tokens == {<<"a">>, <<"+">>, <<";">>, <<"'">>, <<"\t">>, <<"\n">>}

RECURSIVE TokenFiles(_)
TokenFiles(n) ==
    IF n = 0 THEN {<<>>}
    ELSE LET shorter == TokenFiles(n - 1)
         IN  shorter \cup {f \o t : f \in shorter, t \in Tokens}

\* files with the constructs the short generated files
\* cannot reach
SampleFiles ==
    {<<"a", "+", "a", "+", "a", "\n">>,
     <<"'", ";", "a", "'", "\t", "\n">>,
     <<"R", "E", "A", "L", " ", ":", ":", " ", "x", "\n">>,
     <<"a", ":", ":", "a", ";", "R", "E", "A", "L", ":", ":", "a", "\n">>,
     <<"A", ":", ":", "B", ";", "R", "E", "A", "L", ":", ":", "a", "\n">>,
     <<"d", "o", " ", "i", "=", "1", ",", "1", "0", "\n">>,
     <<"(", "k", "i", "n", "d", "=", "4", ")", "\t", "\n">>,
     <<"\t", "\t", "\n", "(", "k", "i", "n", "d", "=", "4", ")", "\t", "\n">>,
     <<"i", "f", "(", "a", ".", "g", "t", ".", "b", ")", "t", "h", "e", "n", "\n">>,
     <<"x", "=", "1", ";", "y", " ", "=", "2", "\n">>,
     <<"e", "n", "d", "d", "o", "\n", "#", "e", "n", "d", "i", "f", "\n">>,
     <<"c", "a", "l", "l", " ", "o", "m", "p", "_", "g", "e", "t", "(", ")", "\n">>,
     <<"a", "!", "b", " ", "!", "c", "\n">>,
     <<"r", "e", "a", "l", "*", "4", " ", "x", "\n">>,
     <<" ", " ", "u", "s", "e", " ", "o", "m", "p", "_", "l", "i", "b", "\n">>,
     <<"w", "r", "i", "t", "e", "(", "*", ",", "*", ")", " ", "a", "=", "b", "\n">>,
     <<"x", " ", "=", " ", "(", "\\", "1", ",", "2", "\\", ")", "\n">>,
     <<"I", "N", "T", "E", "G", "E", "R", ":", ":", "i", ",", "j", "\n">>}

Files == TokenFiles(MaxFile) \cup SampleFiles

\* the lines of at most n characters of LenChars, each followed by a newline
LenChars == {"a", "\t"}
LenLines == UNION {[1..n -> LenChars] : n \in 0..MaxLineChars}

\* rule templates other than the class's own: small trees with an empty
\* group, a node that is no rule, an unknown placeholder, a template that
\* refers to a group its pattern lacks
FoundA == Tuple(Lit("a"), None, Msg(<<Text("found a")>>))
FixB == Tuple(Grp(1, Lit("b")), Static(<<TG(1), TC(" ")>>), Msg(<<Text("found b")>>))
SkipA == Tuple(Lit("a"), None, None)
NoField == Tuple(Fmt("nosuch"), None, Msg(<<Text("unknown placeholder")>>))
NoGroup == Tuple(Lit("b"), Static(<<TG(1)>>), Msg(<<Text("no such group")>>))
NoRule == [type |-> "str"]

Catalogs ==
    <<List(rules),
      List(<<FoundA, FixB>>),
      List(<<List(<<SkipA, FixB>>), FoundA>>),
      List(<<List(<<List(<<FoundA>>), FixB>>)>>),
      List(<<>>),
      List(<<FoundA, List(<<>>)>>),
      List(<<List(<<FoundA, List(<<>>)>>), FixB>>),
      List(<<FoundA, NoRule>>),
      List(<<List(<<FixB, NoRule>>)>>),
      List(<<NoField>>),
      List(<<FoundA, NoGroup>>)>>

TreeFiles == TokenFiles(2) \cup {<<"a", "b", "\n">>, <<"b", "a", "\n">>}

\* f.readlines(): the text split after each newline
RECURSIVE readlines(_)
readlines(text) ==
    IF Len(text) = 0 THEN <<>>
    ELSE LET ends == {k \in DOMAIN text : text[k] = "\n"}
             cut == IF ends = {} THEN Len(text)
                    ELSE CHOOSE k \in ends : \A j \in ends : k <= j
         IN  <<SubSeq(text, 1, cut)>> \o readlines(SubSeq(text, cut + 1, Len(text)))

\* line.replace("\n", "")
StripNewlines(line) == SelectSeq(line, LAMBDA c : c # "\n")

(***************************************************************************)
(* The state of a LineChecker under construction.  pc is the position in   *)
(* __init__: "rules" before self.rules is built, "check" inside the loop   *)
(* of check_lines, "done" after it, "rejected" when FortranRules raised    *)
(* and "raised" when the evaluation of a line did.                         *)
(***************************************************************************)
VARIABLES catalog, linelen, lines, i, corrected_lines,
          errors, errcount, modifcount, pc, exc

vars == <<catalog, linelen, lines, i, corrected_lines,
          errors, errcount, modifcount, pc, exc>>

filename == "f.f90"

\* the default of the parameter linelen of LineChecker.__init__
DefaultLinelen == 120

\* self.rules.get()
get == FortranRules(Catalogs[catalog], linelen)

meta_of(k) ==
    [line |-> k + 1, original_line |-> StripNewlines(lines[k + 1]),
     filename |-> filename, pos |-> 0]

Start(c, l, text) ==
    /\ catalog = c
    /\ linelen = l
    /\ lines = readlines(text)
    /\ i = 0
    /\ corrected_lines = <<>>
    /\ errors = <<>>
    /\ errcount = 0
    /\ modifcount = 0
    /\ pc = "rules"
    /\ exc = ""

Init == \E text \in Files : Start(1, DefaultLinelen, text)

\* one line, measured against a limit given to the constructor
InitLen ==
    \/ \E l \in 0..MaxLimit, line \in LenLines : Start(1, l, line \o <<"\n">>)
    \/ \E n \in {ExampleLimit, ExampleLimit + 1} :
           Start(1, ExampleLimit, Repeat("a", n) \o <<"\n">>)

\* a catalog built from other rule templates than the class's own
InitTree == \E c \in DOMAIN Catalogs, text \in TreeFiles : Start(c, DefaultLinelen, text)

\* self.rules = FortranRules(linelen=linelen)
Built(r) ==
    IF r.type = "raise"
    THEN pc' = "rejected" /\ exc' = r.exc
    ELSE pc' = "check" /\ exc' = exc

MakeRules ==
    /\ pc = "rules"
    /\ Built(get)
    /\ UNCHANGED <<catalog, linelen, lines, i, corrected_lines,
                   errors, errcount, modifcount>>

\* one iteration of the loop of check_lines, check_ruleset having returned r
Checked(r) ==
    /\ errors' = r.st.errors
    /\ errcount' = r.st.errcount
    /\ modifcount' = r.st.modifcount
    /\ IF r.exc # ""
       THEN /\ pc' = "raised"
            /\ exc' = r.exc
            /\ UNCHANGED <<i, corrected_lines>>
       ELSE /\ corrected_lines' = Append(corrected_lines, r.line)
            /\ i' = i + 1
            /\ UNCHANGED <<pc, exc>>

CheckLine ==
    /\ pc = "check"
    /\ i < Len(lines)
    /\ Checked(check_ruleset(lines[i + 1], lines[i + 1], meta_of(i), get, 0,
                             [errors |-> errors, errcount |-> errcount,
                              modifcount |-> modifcount]))
    /\ UNCHANGED <<catalog, linelen, lines>>

\* the loop of check_lines ends
Finish ==
    /\ pc = "check"
    /\ i = Len(lines)
    /\ pc' = "done"
    /\ UNCHANGED <<catalog, linelen, lines, i, corrected_lines,
                   errors, errcount, modifcount, exc>>

Next == MakeRules \/ CheckLine \/ Finish

Spec == Init /\ [][Next]_vars
SpecLen == InitLen /\ [][Next]_vars
SpecTree == InitTree /\ [][Next]_vars

(***************************************************************************)
(* Properties.  A line is evaluated once corrected_lines holds its result; *)
(* lines[k] is then the original line k, the errors with line = k are its  *)
(* diagnostics.  A rule is told from its message: the messages of the      *)
(* class's catalog are pairwise different.                                 *)
(***************************************************************************)
Evaluated == DOMAIN corrected_lines
Running == pc \in {"check", "done"}
meta_at(k) == meta_of(k - 1)
NoErrors == [errors |-> <<>>, errcount |-> 0, modifcount |-> 0]
Now == [errors |-> errors, errcount |-> errcount, modifcount |-> modifcount]

HasMsg(r) == r.type = "tuple" /\ r.msg.kind = "str"
Suppresses(r) == r.type = "tuple" /\ r.msg.kind = "None" /\ r.correction.kind = "None"
Corrects(r) == r.type = "tuple" /\ r.correction.kind # "None"
Hits(r, l) == r.type = "tuple" /\ search(r.regexp, l, 1).ok

ErrorsAt(k) == {n \in DOMAIN errors : errors[n].line = k}
MsgsAt(k) == {errors[n].msg : n \in ErrorsAt(k)}

\* the leaf rules of a catalog, in catalog order
RECURSIVE Leaves(_)
Leaves(r) ==
    IF r.type = "tuple" THEN <<r>>
    ELSE Flatten([k \in DOMAIN r.items |-> Leaves(r.items[k])])

\* the first of the rules items with a match in l, 0 when there is none
FirstHit(items, l) ==
    LET hit == {j \in DOMAIN items : Hits(items[j], l)}
    IN  IF hit = {} THEN 0 ELSE CHOOSE j \in hit : \A h \in hit : j <= h

\* the messages the top-level entry e owes for the line l: the one of a leaf
\* with a match, or the one of the first child of a group with a match
Reports(e, l) ==
    IF e.type = "tuple"
    THEN IF HasMsg(e) /\ Hits(e, l) THEN {e.msg.s} ELSE {}
    ELSE IF FirstHit(e.items, l) # 0 /\ HasMsg(e.items[FirstHit(e.items, l)])
    THEN {e.items[FirstHit(e.items, l)].msg.s}
    ELSE {}

TwoEntriesReport(rs, k, a, b) ==
    /\ a < b
    /\ Reports(rs.items[a], lines[k]) # {}
    /\ Reports(rs.items[b], lines[k]) # {}

TopLevelCumulative(rs) ==
    \A k \in Evaluated : \A a, b \in DOMAIN rs.items :
        TwoEntriesReport(rs, k, a, b) =>
            \A ma \in Reports(rs.items[a], lines[k]), mb \in Reports(rs.items[b], lines[k]) :
                /\ ma \in MsgsAt(k)
                /\ mb \in MsgsAt(k)
                /\ \A p, q \in ErrorsAt(k) :
                       (errors[p].msg = ma /\ errors[q].msg = mb) => p < q

\* C1: every top-level entry is evaluated whatever the entries before it
\* found: when two top-level entries both have a match in the original line
\* and a message to give, both diagnostics are in the error list of the
\* line, the earlier entry's before the later entry's.
C1_TopLevelCumulativity == Running => TopLevelCumulative(get)

\* a line with two top-level leaf rules matching it has been evaluated and
\* carries both diagnostics
C1_TwoTopLevelRulesReported ==
    /\ Running
    /\ \E k \in Evaluated : \E a, b \in DOMAIN get.items :
           /\ get.items[a].type = "tuple"
           /\ get.items[b].type = "tuple"
           /\ TwoEntriesReport(get, k, a, b)
           /\ Reports(get.items[a], lines[k]) \cup Reports(get.items[b], lines[k])
                  \subseteq MsgsAt(k)

NestedExclusive(rs) ==
    \A k \in Evaluated : \A g \in DOMAIN rs.items :
        (rs.items[g].type = "list" /\ FirstHit(rs.items[g].items, lines[k]) # 0) =>
            LET items == rs.items[g].items
                f == FirstHit(items, lines[k])
            IN  /\ \A j \in (f + 1)..Len(items) :
                       HasMsg(items[j]) => items[j].msg.s \notin MsgsAt(k)
                /\ \A line \in {lines[k], corrected_lines[k]} :
                       check_ruleset(line, lines[k], meta_at(k), rs.items[g], 1, Now)
                       = check_ruleset(line, lines[k], meta_at(k),
                                       List(SubSeq(items, 1, f)), 1, Now)

\* C2: a group inside the top-level list stops after its first child with a
\* match in the original line: no diagnostic of the line carries the message
\* of a later sibling, and evaluating the group gives the line, the error
\* list and the counters that evaluating its children up to that child gives.
C2_NestedGroupExclusivity == Running => NestedExclusive(get)

\* a line on which the first and a later child of a group both match has
\* been evaluated, and the first child has reported
C2_LaterSiblingMatchesToo ==
    /\ Running
    /\ \E k \in Evaluated : \E g \in DOMAIN get.items :
           /\ get.items[g].type = "list"
           /\ LET items == get.items[g].items
                  f == FirstHit(items, lines[k])
              IN  /\ f # 0
                  /\ HasMsg(items[f])
                  /\ items[f].msg.s \in MsgsAt(k)
                  /\ \E j \in (f + 1)..Len(items) :
                         HasMsg(items[j]) /\ Hits(items[j], lines[k])

\* the group g has a suppression leaf as its first child matching line k
SuppressedAt(rs, k, g) ==
    /\ rs.items[g].type = "list"
    /\ FirstHit(rs.items[g].items, lines[k]) # 0
    /\ Suppresses(rs.items[g].items[FirstHit(rs.items[g].items, lines[k])])

SuppressionVeto(rs) ==
    \A k \in Evaluated : \A g \in DOMAIN rs.items :
        SuppressedAt(rs, k, g) =>
            LET items == rs.items[g].items
                leaf == items[FirstHit(items, lines[k])]
                r == check_rule(corrected_lines[k], lines[k], meta_at(k), leaf, Now)
            IN  /\ r.hints > 0
                /\ r.line = corrected_lines[k]
                /\ r.st = Now
                /\ \A j \in DOMAIN items :
                       HasMsg(items[j]) => items[j].msg.s \notin MsgsAt(k)
                /\ \A b \in (g + 1)..Len(rs.items) :
                       Reports(rs.items[b], lines[k]) \subseteq MsgsAt(k)

\* C3: a suppression leaf with a match in the original line returns hints
\* and leaves the line, the error list and both counters as they are; its
\* group gives no diagnostic for the line, and the top-level entries after
\* the group still give theirs.
C3_SuppressionVeto == Running => SuppressionVeto(get)

\* a line has been evaluated on which a suppression leaf vetoed a sibling
\* that matches, and a later top-level entry reported
C3_SiblingVetoedLaterEntryReported ==
    /\ Running
    /\ \E k \in Evaluated : \E g \in DOMAIN get.items :
           /\ SuppressedAt(get, k, g)
           /\ \E j \in DOMAIN get.items[g].items :
                  HasMsg(get.items[g].items[j]) /\ Hits(get.items[g].items[j], lines[k])
           /\ \E b \in (g + 1)..Len(get.items) :
                  /\ Reports(get.items[b], lines[k]) # {}
                  /\ Reports(get.items[b], lines[k]) \subseteq MsgsAt(k)

\* the errors of line k that carry the message of the rule r
ErrorsOf(k, r) == {p \in ErrorsAt(k) : errors[p].msg = r.msg.s}

ColumnsFromOriginal(leaves) ==
    \A k \in Evaluated :
        /\ \A p \in ErrorsAt(k) :
               \E n \in DOMAIN leaves : HasMsg(leaves[n]) /\ leaves[n].msg.s = errors[p].msg
        /\ \A n \in DOMAIN leaves :
               (HasMsg(leaves[n]) /\ ErrorsOf(k, leaves[n]) # {}) =>
                   LET ms == finditer(leaves[n].regexp, lines[k])
                   IN  /\ Cardinality(ErrorsOf(k, leaves[n])) = Len(ms)
                       /\ {errors[p].pos : p \in ErrorsOf(k, leaves[n])}
                          = {ms[j].start + 1 : j \in DOMAIN ms}

\* C4: the diagnostics of a rule for a line are one per match of the rule
\* in the original line, and the column of each is the 0-based start of its
\* match in the original line plus 1, whatever the rules before it have
\* done to the current line.
C4_ColumnsFromOriginalLine == Running => ColumnsFromOriginal(Leaves(get))

\* the rule r changes the length of the line l
Resizes(r, l) ==
    /\ r.correction.kind = "str"
    /\ Len(sub(r.regexp, r.correction.template, l)) # Len(l)

\* a diagnostic stands right of one whose rule, evaluated before, changed
\* the length of the line: its column is no match start in the corrected line
C4_ColumnAfterEarlierCorrection ==
    /\ Running
    /\ \E k \in Evaluated : \E p, q \in ErrorsAt(k) :
           /\ p < q
           /\ errors[p].msg # errors[q].msg
           /\ errors[p].pos < errors[q].pos
           /\ \E n, m \in DOMAIN Leaves(get) :
                  /\ HasMsg(Leaves(get)[n]) /\ Leaves(get)[n].msg.s = errors[p].msg
                  /\ HasMsg(Leaves(get)[m]) /\ Leaves(get)[m].msg.s = errors[q].msg
                  /\ Resizes(Leaves(get)[n], lines[k])
                  /\ \A j \in DOMAIN finditer(Leaves(get)[m].regexp, corrected_lines[k]) :
                         finditer(Leaves(get)[m].regexp, corrected_lines[k])[j].start + 1
                             # errors[q].pos

\* the full catalog run on the corrected line k as a line of its own
SecondPass(rs, k) ==
    check_ruleset(corrected_lines[k], corrected_lines[k],
                  [meta_at(k) EXCEPT !.original_line = StripNewlines(corrected_lines[k])],
                  rs, 0, NoErrors)

\* C5: the corrected line is a fixed point: the full catalog run on it
\* returns it unchanged and gives no diagnostic.
C5_CorrectedLineIsFixedPoint ==
    Running => \A k \in Evaluated :
                   /\ SecondPass(get, k).line = corrected_lines[k]
                   /\ SecondPass(get, k).st.errors = <<>>

\* the line a+a+a has been corrected to a + a+a, which a second run changes
\* and reports again
C5_SecondPassCorrectsAgain ==
    /\ Running
    /\ \E k \in Evaluated :
           /\ lines[k] = <<"a", "+", "a", "+", "a", "\n">>
           /\ corrected_lines[k] = <<"a", " ", "+", " ", "a", "+", "a", "\n">>
           /\ SecondPass(get, k).line # corrected_lines[k]
           /\ SecondPass(get, k).st.errcount > 0

\* C6: the evaluation of a line never raises: a catalog that format_rule
\* built evaluates every line to a result.
C6_EvaluationNeverRaises == pc # "raised"

\* format_rule has accepted a catalog that is an empty list, and the
\* evaluation of a line has raised
C6_EmptyListRaises ==
    /\ pc = "raised"
    /\ exc = "UnboundLocalError"
    /\ Catalogs[catalog] = List(<<>>)
    /\ get = List(<<>>)

\* where the digit 1 stands in the marker line, as 1-based indexes
Ones(e) == {d \in DOMAIN e.marker : e.marker[d] = "1"}

\* C7: the digit 1 of the marker line is at the offset that the character
\* of the original line at the reported column has in the snippet line: the
\* snippet line is a space and the original line, so the character at the
\* 1-based column pos is its element pos + 1.
C7_MarkerUnderColumn ==
    \A n \in DOMAIN errors :
        /\ errors[n].snippet[errors[n].pos + 1] = lines[errors[n].line][errors[n].pos]
        /\ Ones(errors[n]) = {errors[n].pos + 1}

\* a diagnostic whose digit 1 stands one place right of the matched column
C7_MarkerOneToTheRight ==
    \E n \in DOMAIN errors :
        /\ errors[n].snippet[errors[n].pos + 1] = "\t"
        /\ errors[n].msg = "Should use 2 spaces instead of tabulation"
        /\ Ones(errors[n]) = {errors[n].pos + 2}

\* the message of the line-length rule of a catalog built for the limit l
LengthMsg(l) == "Line length > " \o ToString(l) \o " characters"

LengthRules(leaves) == {n \in DOMAIN leaves : HasMsg(leaves[n]) /\ leaves[n].msg.s = LengthMsg(linelen)}

LineLengthBoundary(leaves) ==
    /\ Cardinality(LengthRules(leaves)) = 1
    /\ \A k \in Evaluated :
           lines[k][Len(lines[k])] = "\n" =>
               /\ Cardinality({p \in ErrorsAt(k) : errors[p].msg = LengthMsg(linelen)})
                  = IF Len(lines[k]) - 1 > linelen THEN 1 ELSE 0
               /\ \A n \in LengthRules(leaves) : \A line \in {lines[k], corrected_lines[k]} :
                      check_rule(line, lines[k], meta_at(k), leaves[n], Now).line = line

\* C8: for a limit L and a line of n characters and a newline, the
\* line-length rule gives exactly one diagnostic when n > L and none when
\* n <= L, and it returns the line it was given.
C8_LineLengthBoundary == Running => LineLengthBoundary(Leaves(get))

\* a line of one character more than the limit ExampleLimit has been
\* evaluated and has its one diagnostic
C8_OneOverTheLimit ==
    /\ Running
    /\ linelen = ExampleLimit
    /\ \E k \in Evaluated :
           /\ Len(lines[k]) - 1 = linelen + 1
           /\ Cardinality({p \in ErrorsAt(k) : errors[p].msg = LengthMsg(linelen)}) = 1

\* the line k as the case-fixing rule, the c-th top-level entry, finds it
LineBefore(rs, k, c) ==
    check_ruleset(lines[k], lines[k], meta_at(k), List(SubSeq(rs.items, 1, c - 1)),
                  0, NoErrors).line

\* does to_lowercase, applied for the matches in original to the line before,
\* lowercase the keywords of before and nothing outside them
CaseFixExact(rule, original, before, meta) ==
    LET fixed == check_rule(before, original, meta, rule, NoErrors).line
        spans == finditer(rule.regexp, before)
    IN  /\ Len(fixed) = Len(before)
        /\ \A j \in DOMAIN spans :
               Slice(fixed, spans[j].start, spans[j].end)
               = lower(Slice(before, spans[j].start, spans[j].end))
        /\ \A p \in DOMAIN before :
               fixed[p] # before[p] =>
                   \E j \in DOMAIN spans : spans[j].start < p /\ p <= spans[j].end

IsCaseFix(rs, k, c) ==
    /\ c > 1
    /\ rs.items[c].type = "tuple"
    /\ rs.items[c].correction.kind = "callable"
    /\ Hits(rs.items[c], lines[k])

\* C9: when the case-fixing rule matches the original line, the transform
\* leaves the type keywords of the current line in lowercase and every
\* character outside them as it was, whatever the entries before it have
\* inserted or removed.
C9_CaseFixTouchesOnlyKeyword ==
    Running => \A k \in Evaluated : \A c \in DOMAIN get.items :
                   IsCaseFix(get, k, c) =>
                       CaseFixExact(get.items[c], lines[k], LineBefore(get, k, c), meta_at(k))

\* the line a::a;REAL::a has been corrected to a :: a; reaL :: a
C9_KeywordPartlyLowercased ==
    /\ Running
    /\ \E k \in Evaluated :
           /\ lines[k] = <<"a", ":", ":", "a", ";", "R", "E", "A", "L", ":", ":", "a", "\n">>
           /\ corrected_lines[k] = <<"a", " ", ":", ":", " ", "a", ";", " ", "r", "e", "a",
                                     "L", " ", ":", ":", " ", "a", "\n">>

\* the place in the catalog of the rule with the message msg
RuleIndex(leaves, msg) ==
    CHOOSE n \in DOMAIN leaves : HasMsg(leaves[n]) /\ leaves[n].msg.s = msg

Bookkeeping(leaves) ==
    /\ errcount = Len(errors)
    /\ \A n \in DOMAIN leaves : Corrects(leaves[n]) => HasMsg(leaves[n])
    /\ \A p, q \in DOMAIN errors :
           p < q =>
               /\ errors[p].line <= errors[q].line
               /\ errors[p].line = errors[q].line =>
                      RuleIndex(leaves, errors[p].msg) <= RuleIndex(leaves, errors[q].msg)
               /\ (errors[p].line = errors[q].line /\ errors[p].msg = errors[q].msg) =>
                      errors[p].pos < errors[q].pos
    /\ modifcount
       = Cardinality({p \in DOMAIN errors :
                          Corrects(leaves[RuleIndex(leaves, errors[p].msg)])})

\* C10: errcount is the length of the error list; the errors are in line
\* order, within a line in rule order, within a rule in match order; and
\* modifcount is the number of matches of the rules with a replacement (each
\* of them has a message, so each such match is one error), the matches of
\* suppression and detection-only rules leaving it alone.
C10_CountersAndOrder == Running => Bookkeeping(Leaves(get))

\* two lines have been evaluated, with two matches of one rule in a line and
\* with a match of a detection-only rule
C10_TwoLinesDetectionAndCorrection ==
    /\ Running
    /\ \E p, q \in DOMAIN errors :
           /\ p < q
           /\ errors[p].line = errors[q].line
           /\ errors[p].msg = errors[q].msg
    /\ \E p, q \in DOMAIN errors : errors[p].line < errors[q].line
    /\ 0 < modifcount
    /\ modifcount < errcount

====
